---- MODULE Spec2Model ----
(***************************************************************************)
(* Model of frameworks/Rust/axum/src/mongo/database.rs: the MongoDB data   *)
(* access functions find_world_by_id, find_worlds, fetch_fortunes and      *)
(* update_worlds, run against a document store that holds the `world` and  *)
(* `fortune` collections.                                                  *)
(*                                                                         *)
(* A BSON document is a function from field names to values, so a field    *)
(* that a document does not carry is simply outside its DOMAIN.  A Rust    *)
(* String is the sequence of its UTF-8 bytes.  An Option is a set with at  *)
(* most one element.  A panic (unwrap / expect) is the outcome "panic".    *)
(***************************************************************************)
EXTENDS Integers, Sequences, FiniteSets, TLC

VARIABLES world, fortune, point, fan, scan, upd

vars == <<world, fortune, point, fan, scan, upd>>

(***************************************************************************)
(* Bounds of the model.                                                    *)
(***************************************************************************)
MaxCount == 2
MaxFortunes == 2
MaxUpdates == 2

(***************************************************************************)
(* i32 -> f32 (`id as f32`): an f32 carries 24 significant bits, the cast  *)
(* rounds to the nearest representable value, ties to the even mantissa.   *)
(***************************************************************************)
F32_MANTISSA_DIGITS == 24

RECURSIVE Pow2(_)
Pow2(n) == IF n = 0 THEN 1 ELSE 2 * Pow2(n - 1)

Abs(n) == IF n < 0 THEN 0 - n ELSE n

\* spacing of the f32 values around the magnitude a
RECURSIVE F32Ulp(_)
F32Ulp(a) == IF a < Pow2(F32_MANTISSA_DIGITS) THEN 1 ELSE 2 * F32Ulp(a \div 2)

\* `id as f32`
as_f32(n) ==
    LET a == Abs(n)
        u == F32Ulp(a)
        q == a \div u
        r == a % u
        m == IF 2 * r < u THEN q
             ELSE IF 2 * r > u THEN q + 1
             ELSE IF q % 2 = 0 THEN q ELSE q + 1
    IN  IF n < 0 THEN 0 - (m * u) ELSE m * u

(***************************************************************************)
(* The store.                                                              *)
(***************************************************************************)
\* ids around the point where f32 stops being exact (2^24), and small ones
WorldIds == {1, 2, 16777216, 16777217}
RequestIds == WorldIds \cup {3}
RandomNumbers == {100, 200}

WorldDoc(k, v, withId) ==
    IF withId
    THEN ("_id" :> k) @@ ("id" :> k) @@ ("randomNumber" :> v)
    ELSE ("_id" :> k) @@ ("randomNumber" :> v)

\* contents of the world collection: _id is unique; the documents of a
\* collection either all carry a copy of the key in a field `id`, or none does
WorldStores ==
    { { WorldDoc(k, f[k], withId) : k \in S } :
        S \in SUBSET WorldIds, f \in [WorldIds -> RandomNumbers], withId \in BOOLEAN }

\* a query filter matches a document that carries every field of the filter
\* with a numerically equal value
Matches(d, filter) ==
    \A f \in DOMAIN filter : f \in DOMAIN d /\ d[f] = filter[f]

\* Collection::find_one: Some(first match) or None
find_one(coll, filter) ==
    IF \E d \in coll : Matches(d, filter)
    THEN { CHOOSE d \in coll : Matches(d, filter) }
    ELSE {}

\* the World the typed collection hands back for a document
World(d) == [id |-> d["_id"], random_number |-> d["randomNumber"]]

NoWorld == [id |-> 0 - 1, random_number |-> 0 - 1]

(***************************************************************************)
(* Outcomes of a call.                                                     *)
(***************************************************************************)
Ok(v) == [status |-> "ok", msg |-> "", value |-> v]
Panic(m, v) == [status |-> "panic", msg |-> m, value |-> v]
Err(m, v) == [status |-> "err", msg |-> m, value |-> v]

\* Result::unwrap / Option::expect / Result::expect: the value, or a panic
expect_err(ok, m, v) == IF ok THEN Ok(v) ELSE Err(m, v)

expect(ok, m, v) == IF ok THEN Ok(v) ELSE Panic(m, v)

(***************************************************************************)
(* find_world_by_id                                                        *)
(***************************************************************************)
World_filter(id) == "_id" :> as_f32(id)

find_world_by_id(coll, id, driverOk) ==
    LET found == find_one(coll, World_filter(id))
        unwrapped == expect(driverOk, "called Result::unwrap() on an Err value", NoWorld)
    IN  IF unwrapped.status # "ok" THEN unwrapped
        ELSE IF found = {}
             THEN expect(FALSE, "expected world, found none", NoWorld)
             ELSE Ok(World(CHOOSE d \in found : TRUE))

(***************************************************************************)
(* fetch_fortunes: Fortune records, String::cmp, Vec::sort_by               *)
(***************************************************************************)
ADDITIONAL_FORTUNE ==
    <<65, 100, 100, 105, 116, 105, 111, 110, 97, 108, 32, 102, 111, 114, 116,
      117, 110, 101, 32, 97, 100, 100, 101, 100, 32, 97, 116, 32, 114, 101,
      113, 117, 101, 115, 116, 32, 116, 105, 109, 101, 46>>

\* "A", "B", "Ad" and a stored copy of the additional text
Messages == { <<65>>, <<66>>, <<65, 100>>, ADDITIONAL_FORTUNE }

Fortune(id, message) == [id |-> id, message |-> message]

FortuneIds == 1..MaxFortunes

\* contents of the fortune collection in natural order: ids unique and positive
FortuneStores ==
    UNION { { s \in [1..n -> [id : FortuneIds, message : Messages]] :
                \A i, j \in 1..n : i # j => s[i].id # s[j].id } :
            n \in 0..MaxFortunes }

\* String::cmp: lexicographic comparison of the bytes
RECURSIVE cmp(_, _)
cmp(a, b) ==
    IF a = <<>> THEN (IF b = <<>> THEN "Equal" ELSE "Less")
    ELSE IF b = <<>> THEN "Greater"
    ELSE IF Head(a) < Head(b) THEN "Less"
    ELSE IF Head(a) > Head(b) THEN "Greater"
    ELSE cmp(Tail(a), Tail(b))

\* x placed behind every element that does not compare Greater than it
RECURSIVE insert_stable(_, _)
insert_stable(s, x) ==
    IF s = <<>> THEN <<x>>
    ELSE IF cmp(x.message, Head(s).message) = "Less" THEN <<x>> \o s
    ELSE <<Head(s)>> \o insert_stable(Tail(s), x)

unsorted(v) == v

\* fortunes.sort_by(|a, b| a.message.cmp(&b.message)): a stable sort
RECURSIVE sort_by(_)
sort_by(v) ==
    IF v = <<>> THEN <<>>
    ELSE insert_stable(sort_by(SubSeq(v, 1, Len(v) - 1)), v[Len(v)])

push_nothing(v) == v

push_additional_twice(v) ==
    Append(Append(v, [id |-> 0, message |-> ADDITIONAL_FORTUNE]),
           [id |-> 0, message |-> ADDITIONAL_FORTUNE])

\* fortunes.push(Fortune { id: 0, message: "Additional fortune ..." })
push_additional(v) == Append(v, Fortune(0, ADDITIONAL_FORTUNE))

(***************************************************************************)
(* update_worlds: the statements of the update command                     *)
(***************************************************************************)
\* { "q": { "id": world.id }, "u": { "$set": { "randomNumber": ... } } }
update_statement(w) ==
    [q |-> ("id" :> w.id), u |-> ("randomNumber" :> w.random_number)]

inc_fields(d, u) ==
    [f \in DOMAIN d |-> IF f \in DOMAIN u THEN d[f] + u[f] ELSE d[f]]

\* $set: the fields of u replace or extend those of the document
set_fields(d, u) == u @@ d

\* one statement of the command (multi: false, upsert: false)
apply_update(coll, stmt) ==
    LET found == find_one(coll, stmt.q)
    IN  IF found = {} THEN coll
        ELSE LET d == CHOOSE x \in found : TRUE
             IN  (coll \ {d}) \cup { set_fields(d, stmt.u) }

\* keys submitted to update_worlds; 3 is the key of no document
UpdateIds == {1, 2, 3}

UpdateInputs ==
    UNION { [1..n -> [id : UpdateIds, random_number : RandomNumbers]] :
            n \in 1..MaxUpdates }

(***************************************************************************)
(* State of the calls.  Request handlers are modelled one call at a time;  *)
(* point, fan, scan and upd hold the call in progress or the last one.     *)
(***************************************************************************)
IdlePoint == [called |-> FALSE, id |-> 0, driverOk |-> TRUE, out |-> Ok(NoWorld)]

IdleFan == [pc |-> "idle", ids |-> <<>>, pending |-> {}, worlds |-> <<>>,
            out |-> Ok(<<>>), failed |-> FALSE, firstFailure |-> Ok(NoWorld)]

IdleScan == [pc |-> "idle", cursor |-> <<>>, fortunes |-> <<>>, out |-> Ok(<<>>),
             prev |-> <<>>]

IdleUpd == [pc |-> "idle", worlds |-> <<>>, updates |-> <<>>, pending |-> {},
            out |-> Ok(TRUE), cmdOk |-> TRUE, round |-> 0, before |-> {},
            after1 |-> {}]

InFlight == fan.pc = "polling" \/ scan.pc = "draining" \/ upd.pc = "running"

\* no call in progress and none whose outcome is still held
AtRest ==
    /\ point = IdlePoint
    /\ fan = IdleFan
    /\ scan.pc = "idle"
    /\ upd = IdleUpd

\* the scan record at rest: the last list returned is remembered
RestScan ==
    [IdleScan EXCEPT !.prev = IF scan.pc = "done" THEN scan.fortunes ELSE scan.prev]

\* a call has ended (returned or panicked) and its caller is done with the
\* outcome: the records go back to rest
EndOfCall ==
    /\ ~InFlight
    /\ ~AtRest
    /\ point' = IdlePoint
    /\ fan' = IdleFan
    /\ scan' = RestScan
    /\ upd' = IdleUpd
    /\ UNCHANGED <<world, fortune>>

----------------------------------------------------------------------------
\* one call of find_world_by_id by a request handler
PointFetch(id, driverOk) ==
    /\ AtRest
    /\ point' = [called |-> TRUE, id |-> id, driverOk |-> driverOk,
                 out |-> find_world_by_id(world, id, driverOk)]
    /\ UNCHANGED <<world, fortune, fan, scan, upd>>

----------------------------------------------------------------------------
\* find_worlds

\* random_ids(rng, count): count ids, repeats allowed
random_ids(count) == [1..count -> RequestIds]

collect_oks(f, i, r) ==
    IF r.status = "ok"
    THEN [f EXCEPT !.pending = @ \ {i}, !.worlds = Append(@, r.value)]
    ELSE [f EXCEPT !.pending = @ \ {i}]

\* what try_collect does with the output r of future i: an Ok item is kept,
\* an Err item ends the collection with that Err; a panic of the future
\* unwinds through the poll of find_worlds
try_collect(f, i, r) ==
    IF r.status = "ok"
    THEN [f EXCEPT !.pending = @ \ {i}, !.worlds = Append(@, r.value)]
    ELSE IF r.status = "err"
    THEN [f EXCEPT !.pc = "done", !.out = Err(r.msg, <<>>)]
    ELSE [f EXCEPT !.pc = "panicked", !.out = Panic(r.msg, <<>>)]

\* for id in random_ids(rng, count) { future_worlds.push(find_world_by_id(..)) }
FindWorldsStart(ids) ==
    /\ AtRest
    /\ fan' = [IdleFan EXCEPT !.pc = "polling", !.ids = ids,
                              !.pending = 1..Len(ids)]
    /\ UNCHANGED <<world, fortune, point, scan, upd>>

\* one of the futures in the FuturesUnordered completes
FutureCompletes(i, driverOk) ==
    /\ fan.pc = "polling"
    /\ i \in fan.pending
    /\ LET r == find_world_by_id(world, fan.ids[i], driverOk)
           f == try_collect(fan, i, r)
       IN  fan' = IF r.status # "ok" /\ ~fan.failed
                  THEN [f EXCEPT !.failed = TRUE, !.firstFailure = r]
                  ELSE f
    /\ UNCHANGED <<world, fortune, point, scan, upd>>

\* the stream is exhausted: try_collect yields Ok(worlds)
FindWorldsReturn ==
    /\ fan.pc = "polling"
    /\ fan.pending = {}
    /\ fan' = [fan EXCEPT !.pc = "done", !.out = Ok(fan.worlds)]
    /\ UNCHANGED <<world, fortune, point, scan, upd>>

----------------------------------------------------------------------------
\* fetch_fortunes

\* fortune_collection.find(doc! {}).await.expect("fortunes could not be loaded")
FortunesFind(driverOk) ==
    /\ AtRest
    /\ LET r == expect(driverOk, "fortunes could not be loaded", <<>>)
       IN  scan' = IF r.status = "ok"
                   THEN [scan EXCEPT !.pc = "draining", !.cursor = fortune]
                   ELSE [scan EXCEPT !.pc = "panicked", !.out = r]
    /\ UNCHANGED <<world, fortune, point, fan, upd>>

\* while let Some(doc) = fortune_cursor.next().await { fortunes.push(doc.expect(..)) }
CursorNext(itemOk) ==
    /\ scan.pc = "draining"
    /\ scan.cursor # <<>>
    /\ LET r == expect(itemOk, "could not load fortune", <<>>)
       IN  scan' = IF r.status = "ok"
                   THEN [scan EXCEPT !.cursor = Tail(@),
                                     !.fortunes = Append(@, Head(scan.cursor))]
                   ELSE [scan EXCEPT !.pc = "panicked", !.out = r]
    /\ UNCHANGED <<world, fortune, point, fan, upd>>

\* the cursor yields None: push the additional fortune, sort, return
FortunesReturn ==
    /\ scan.pc = "draining"
    /\ scan.cursor = <<>>
    /\ LET sorted == sort_by(push_additional(scan.fortunes))
       IN  scan' = [scan EXCEPT !.pc = "done", !.fortunes = sorted,
                                !.out = Ok(sorted)]
    /\ UNCHANGED <<world, fortune, point, fan, upd>>

----------------------------------------------------------------------------
\* update_worlds

DistinctKeys(ws) == \A i, j \in 1..Len(ws) : i # j => ws[i].id # ws[j].id

\* build the statements and send the command; a second call with the same
\* list right after a completed first one is recorded as round 2
UpdateStart(ws) ==
    /\ LET again == upd.pc = "done" /\ upd.out.status = "ok" /\ upd.worlds = ws
                    /\ upd.round = 1
       IN  /\ AtRest \/ again
           /\ upd' = [IdleUpd EXCEPT
                     !.pc = "running",
                     !.worlds = ws,
                     !.updates = [i \in 1..Len(ws) |-> update_statement(ws[i])],
                     !.pending = 1..Len(ws),
                     !.round = IF again THEN 2 ELSE 1,
                     !.before = IF again THEN upd.before ELSE world,
                     !.after1 = IF again THEN world ELSE {}]
    /\ UNCHANGED <<world, fortune, point, fan, scan>>

\* "ordered": false - the store executes the statements in any order
StoreApplies(i) ==
    /\ upd.pc = "running"
    /\ i \in upd.pending
    /\ world' = apply_update(world, upd.updates[i])
    /\ upd' = [upd EXCEPT !.pending = @ \ {i}]
    /\ UNCHANGED <<fortune, point, fan, scan>>

\* db.run_command(..).await.expect("could not update worlds"); Ok(true)
\* the reply arrives once every statement ran; a failure can come at any time
RunCommandReplies(cmdOk) ==
    /\ upd.pc = "running"
    /\ cmdOk => upd.pending = {}
    /\ LET r == expect(cmdOk, "could not update worlds", TRUE)
       IN  upd' = [upd EXCEPT !.pc = IF r.status = "panic" THEN "panicked" ELSE "done",
                              !.out = r, !.cmdOk = cmdOk]
    /\ UNCHANGED <<world, fortune, point, fan, scan>>

----------------------------------------------------------------------------
NextFetch ==
    \/ \E id \in RequestIds, driverOk \in BOOLEAN : PointFetch(id, driverOk)
    \/ \E count \in 0..MaxCount : \E ids \in random_ids(count) : FindWorldsStart(ids)
    \/ \E i \in 1..MaxCount, driverOk \in BOOLEAN : FutureCompletes(i, driverOk)
    \/ FindWorldsReturn
    \/ EndOfCall

NextFortune ==
    \/ \E driverOk \in BOOLEAN : FortunesFind(driverOk)
    \/ \E itemOk \in BOOLEAN : CursorNext(itemOk)
    \/ FortunesReturn
    \/ EndOfCall

NextUpdate ==
    \/ \E ws \in UpdateInputs : UpdateStart(ws)
    \/ \E i \in 1..MaxUpdates : StoreApplies(i)
    \/ \E cmdOk \in BOOLEAN : RunCommandReplies(cmdOk)
    \/ EndOfCall

Idle ==
    /\ point = IdlePoint
    /\ fan = IdleFan
    /\ scan = IdleScan
    /\ upd = IdleUpd

\* the world queries, against every content of the world collection
InitFetch == world \in WorldStores /\ fortune = <<>> /\ Idle

SpecFetch == InitFetch /\ [][NextFetch]_vars

\* the fortune scan, against every content of the fortune collection
InitFortune == world = {} /\ fortune \in FortuneStores /\ Idle

SpecFortune == InitFortune /\ [][NextFortune]_vars

\* the bulk update, against every content of the world collection
InitUpdate ==
    /\ world \in { s \in WorldStores : \A d \in s : d["_id"] \in UpdateIds }
    /\ fortune = <<>>
    /\ Idle

SpecUpdate == InitUpdate /\ [][NextUpdate]_vars

\* the three reading calls, on both collections
ScenarioWorld == { WorldDoc(1, 100, FALSE), WorldDoc(2, 200, FALSE) }

ScenarioFortunes == << Fortune(1, <<66>>), Fortune(2, <<65>>) >>

\* a sample of the world stores (any set of keys) and of the fortune stores
\* (any ids and order, texts "A" and "B")
ReadsWorlds ==
    { s \in WorldStores :
        \A d \in s : "id" \notin DOMAIN d /\ d["randomNumber"] = 100 }

ReadsFortunes ==
    { s \in FortuneStores :
        \A i \in DOMAIN s : s[i].message \in { <<65>>, <<66>> } }

InitReads ==
    /\ \/ world \in ReadsWorlds /\ fortune = ScenarioFortunes
       \/ world = {} /\ fortune \in ReadsFortunes
    /\ Idle

NextReads ==
    \/ \E id \in RequestIds, driverOk \in BOOLEAN : PointFetch(id, driverOk)
    \/ \E count \in 0..MaxCount : \E ids \in random_ids(count) : FindWorldsStart(ids)
    \/ \E i \in 1..MaxCount, driverOk \in BOOLEAN : FutureCompletes(i, driverOk)
    \/ FindWorldsReturn
    \/ \E driverOk \in BOOLEAN : FortunesFind(driverOk)
    \/ \E itemOk \in BOOLEAN : CursorNext(itemOk)
    \/ FortunesReturn
    \/ EndOfCall

SpecReads == InitReads /\ [][NextReads]_vars

----------------------------------------------------------------------------
(***************************************************************************)
(* Properties                                                              *)
(***************************************************************************)
StoredIds == { d["_id"] : d \in world }

StoredWorld(id) == World(CHOOSE d \in world : d["_id"] = id)

Occurrences(s, x) == Cardinality({ i \in DOMAIN s : s[i] = x })

Keys(ws) == [i \in DOMAIN ws |-> ws[i].id]

\* C1: find_world_by_id called with the key of a stored Entity, the store
\* answering, returns Ok with the stored Entity of that key and its value.
C1_PointFetchReturnsStoredEntity ==
    (point.called /\ point.driverOk /\ point.id \in StoredIds)
        => /\ point.out.status = "ok"
           /\ point.out.value.id = point.id
           /\ point.out.value = StoredWorld(point.id)

\* C2: find_world_by_id called with an id that is the key of no stored Entity
\* returns a NotFound error to its caller and does not abort; with worlds
\* {1:100, 2:200}, id 1 yields {1,100} and id 3 yields NotFound.
C2_AbsentIdIsNotFound ==
    (point.called /\ point.driverOk)
        => /\ point.id \notin StoredIds
                => point.out.status = "err" /\ point.out.msg = "NotFound"
           /\ (world = ScenarioWorld /\ point.id = 1)
                => point.out = Ok([id |-> 1, random_number |-> 100])

\* C3: a successful find_worlds returns exactly count Entities whose keys are
\* the generated ids with the same multiplicities, in whatever order the
\* futures completed.
C3_FanOutReturnsGeneratedKeys ==
    (fan.pc = "done" /\ fan.out.status = "ok")
        => /\ Len(fan.out.value) = Len(fan.ids)
           /\ \A k \in RequestIds \cup StoredIds :
                Occurrences(Keys(fan.out.value), k) = Occurrences(fan.ids, k)

\* C4: once one of the fetches of a find_worlds call has failed, the call has
\* ended with that first failure and with no list of Entities, whatever the
\* siblings did before or have not yet done.
C4_FailFast ==
    fan.failed
        => /\ fan.pc \in {"panicked", "done"}
           /\ fan.out.status # "ok"
           /\ fan.out.status = fan.firstFailure.status
           /\ fan.out.msg = fan.firstFailure.msg
           /\ fan.out.value = <<>>

\* a fetch failed after a sibling had already delivered its Entity
C4_Witness ==
    /\ fan.failed
    /\ fan.pc = "panicked"
    /\ Len(fan.worlds) >= 1

\* C5: fetch_fortunes returns with the cursor drained; the list has one entry
\* more than the collection, holds every stored Message and the additional one.
C5_DrainedLengthAndContent ==
    scan.pc = "done"
        => /\ scan.out.status = "ok"
           /\ scan.cursor = <<>>
           /\ Len(scan.out.value) = Len(fortune) + 1
           /\ \A i \in DOMAIN fortune : Occurrences(scan.out.value, fortune[i]) = 1
           /\ Occurrences(scan.out.value, [id |-> 0, message |-> ADDITIONAL_FORTUNE]) >= 1

\* a scan of a collection of at least two Messages has returned
C5_Witness ==
    /\ scan.pc = "done"
    /\ Len(fortune) >= 2

\* byte-wise lexicographic a <= b, stated without the comparison of the code
LexLeq(a, b) ==
    \/ /\ Len(a) <= Len(b)
       /\ \A j \in 1..Len(a) : a[j] = b[j]
    \/ \E k \in 1..Len(a) :
         /\ k <= Len(b)
         /\ \A j \in 1..(k - 1) : a[j] = b[j]
         /\ a[k] < b[k]

\* C6: the list fetch_fortunes returns is non-decreasing in text, bytewise,
\* with the additional Message sorted in among the stored ones; stored
\* [{1,"B"},{2,"A"}] yields [{2,"A"},{0,additional},{1,"B"}].
C6_SortedByText ==
    scan.pc = "done"
        => /\ \A i \in 1..(Len(scan.out.value) - 1) :
                LexLeq(scan.out.value[i].message, scan.out.value[i + 1].message)
           /\ fortune = ScenarioFortunes
                => scan.out.value = << [id |-> 2, message |-> <<65>>],
                                       [id |-> 0, message |-> ADDITIONAL_FORTUNE],
                                       [id |-> 1, message |-> <<66>>] >>

\* the scan of [{1,"B"},{2,"A"}] has returned
C6_Witness ==
    /\ scan.pc = "done"
    /\ fortune = ScenarioFortunes

\* C7: after update_worlds has returned for a list with distinct keys, every
\* stored Entity whose key was submitted holds the submitted value, and every
\* other stored Entity is as it was before the call.
C7_UpdateSetsSubmittedValues ==
    (upd.pc = "done" /\ DistinctKeys(upd.worlds))
        => /\ \A d \in world : \A i \in DOMAIN upd.worlds :
                d["_id"] = upd.worlds[i].id
                    => d["randomNumber"] = upd.worlds[i].random_number
           /\ \A d \in world :
                (\A i \in DOMAIN upd.worlds : d["_id"] # upd.worlds[i].id)
                    => d \in upd.before

\* C8: update_worlds applied a second time with the same list of distinct keys
\* leaves the store as the first application left it.
C8_Idempotent ==
    (upd.pc = "done" /\ upd.round = 2 /\ DistinctKeys(upd.worlds))
        => world = upd.after1

\* the second application has returned, the first one had changed the store
C8_Witness ==
    /\ upd.pc = "done"
    /\ upd.round = 2
    /\ DistinctKeys(upd.worlds)
    /\ upd.after1 # upd.before

\* C9: update_worlds ends in one of two ways: Ok(true) when the command was
\* accepted, a panic when it failed; it never returns an Err.
C9_TrueOrAbort ==
    /\ upd.out.status # "err"
    /\ upd.pc = "done" => upd.cmdOk /\ upd.out = Ok(TRUE)
    /\ upd.pc = "panicked" => ~upd.cmdOk /\ upd.out.status = "panic"
    /\ (upd.pc \in {"done", "panicked"} /\ ~upd.cmdOk) => upd.pc = "panicked"

\* the command failed while statements were still to run
C9_Witness ==
    /\ upd.pc = "panicked"
    /\ upd.pending # {}

\* C10: no step of find_world_by_id, find_worlds or fetch_fortunes changes a
\* collection; the list fetch_fortunes returns holds exactly one Message with
\* id 0, and equals the list the previous call returned.
C10_ReadsLeaveStoreUnchanged ==
    /\ [][(point' # point \/ fan' # fan \/ scan' # scan)
            => UNCHANGED <<world, fortune>>]_vars
    /\ [](scan.pc = "done"
            => /\ Cardinality({ i \in DOMAIN scan.out.value :
                                  scan.out.value[i].id = 0 }) = 1
               /\ \A i \in DOMAIN fortune : fortune[i].id # 0
               /\ scan.prev # <<>> => scan.out.value = scan.prev)

\* fetch_fortunes has returned a second time, after other reads
C10_Witness ==
    /\ scan.pc = "done"
    /\ scan.prev # <<>>
    /\ fortune # <<>>
    /\ world # {}
    /\ fan.pc = "idle"
====
